---- MODULE Spec2Model ----
(***************************************************************************)
(* Roomba-Kart: the control loop of controller.py, with the helpers of     *)
(* controller_functions.py and the values of controller_constants.py.      *)
(*                                                                         *)
(* Units.  Axis values (floats in [-1, 1]) are modelled in hundredths      *)
(* (-100 .. 100); the sampled values are ones on which the IEEE-754        *)
(* evaluation of the source expressions equals the exact rational one.     *)
(* Wall-clock time and durations (float seconds) are modelled in tenths of *)
(* a second.                                                               *)
(***************************************************************************)
EXTENDS Integers, Sequences, FiniteSets, TLC

\* ---------------------------------------------------------------- bounds
\* The clock is not advanced past MaxTime (tenths of a second).
MaxTime == 75
\* At most this many controllers are ever hot-plugged.
MaxControllers == 2

\* Steps by which the wall clock advances (tenths of a second).
Dts == {15, 30}
\* Sampled controller readings <<axis 0, axis 5, axis 2>> (hundredths): at
\* rest with stick drift, forward while steering, backward, both triggers.
ControllerSamples ==
    {<<5, -100, -100>>, <<-50, 100, -100>>, <<5, -100, 100>>, <<-50, 0, 100>>}
\* Sampled sensor packet bytes: nothing, a bumper, both wheeldrops.
SensorBytes == {0, 1, 12}
\* Stands for a read(1) that ends without a byte (the Roomba does not answer,
\* the serial device is gone).
EmptyRead == 0 - 1
\* What a poll's read can end with.
SensorReads == SensorBytes \cup {EmptyRead}
\* Stick readings (hundredths) on which the float evaluation of the radius
\* formula truncates to another integer than the exact one.
SteerRounded ==
    {-93, -92, -91, -81, -80, -79, -78, -68, -40, -17, -16, -15,
     15, 16, 17, 40, 68, 78, 79, 80, 81, 91, 92, 93}
\* Sampled stick readings for the sweep of the steering axis.
SteerSamples == (-100 .. 100) \ SteerRounded
\* Sampled trigger readings for the sweep of the triggers: at rest, at and
\* just past the threshold, half way and fully pulled.
TriggerSamples == {-100, -93, -91, -50, 0, 50, 100}
\* Sampled <<axis 5, axis 2>>: one trigger swept with the other at rest or
\* fully pulled.
TriggerPairs ==
    (TriggerSamples \X {-100, 100}) \cup ({-100, 100} \X TriggerSamples)

\* ------------------------------------------------- controller_constants.py
MAX_VELOCITY_NO_ITEMS == 300
MAX_VELOCITY_W_SHROOM == 500
MAX_VELOCITY_W_STAR == 425
\* seconds in the source, tenths of a second here
MUSHROOM_DURATION == 15
STAR_DURATION == 60
WOBBLE_DURATION == 12
MIN_RADIUS == 0 - 1700
MAX_RADIUS == 1700
\* 0.07 in the source, hundredths here
THRESHOLD == 7
ITEMS == {"mushroom", "star"}
DRIVE == <<137>>
STOP == <<137, 0, 0, 0, 0>>
FULL_MODE == <<128, 132>>
POLL_BUMPERS_AND_DROPS == <<142, 7>>

\* ------------------------------------------------------------ arithmetic
Abs(x) == IF x < 0 THEN 0 - x ELSE x

\* Python's int(): truncation toward zero of the quotient n / d, d > 0.
Trunc(n, d) == IF n >= 0 THEN n \div d ELSE 0 - ((0 - n) \div d)

RECURSIVE BitAnd(_, _)
\* Python's & on non-negative integers.
BitAnd(a, b) ==
    IF a = 0 \/ b = 0 THEN 0
    ELSE 2 * BitAnd(a \div 2, b \div 2) + (IF a % 2 = 1 /\ b % 2 = 1 THEN 1 ELSE 0)

\* ByteSplit of the magnitude, the sign dropped.
ByteSplit_Unsigned(x) ==
    <<((IF x < 0 THEN 0 - x ELSE x) \div 256) % 256, (IF x < 0 THEN 0 - x ELSE x) % 256>>

\* [(x // 256) % 256] + [x % 256]: Python floor division and modulo.
ByteSplit(x) == <<(x \div 256) % 256, x % 256>>

\* ------------------------------------------------ controller_functions.py
\* int((trigger_value + 1) / 2 * given_max_velocity)
apply_forward_velocity(given_max_velocity, trigger_value) ==
    Trunc((trigger_value + 100) * given_max_velocity, 200)

\* -(int((trigger_value + 1) / 2 * given_max_velocity))
apply_backward_velocity(given_max_velocity, trigger_value) ==
    0 - Trunc((trigger_value + 100) * given_max_velocity, 200)

\* apply_turning_radius with the two radii exchanged.
apply_turning_radius_Swapped(stick_x_pos, given_threshold, min_rad, max_rad) ==
    IF stick_x_pos = 0 THEN <<128, 0>>
    ELSE LET rad == IF stick_x_pos > 0
                    THEN Trunc(max_rad * (100 - stick_x_pos + given_threshold), 100)
                    ELSE Trunc(min_rad * (100 + stick_x_pos + given_threshold), 100)
         IN ByteSplit(rad)

apply_turning_radius(stick_x_pos, given_threshold, min_rad, max_rad) ==
    IF stick_x_pos = 0 THEN <<128, 0>>
    ELSE LET rad == IF stick_x_pos > 0
                    THEN Trunc(min_rad * (100 - stick_x_pos + given_threshold), 100)
                    ELSE Trunc(max_rad * (100 + stick_x_pos + given_threshold), 100)
         IN ByteSplit(rad)

\* The two hand-written reverse commands of the wobble loop.
WobbleA == <<137, 255, 176, 0, 50>>
WobbleB == <<137, 255, 176, 255, 205>>

\* The wobble loop's commands, in the order range(3) writes them.
WobbleSequence == <<WobbleA, WobbleB, WobbleA, WobbleB, WobbleA, WobbleB>>

\* The global names controller_functions.py binds: its imports and its defs.
ModuleNames ==
    {"time", "POLL_SENSORS", "detect_front_collision", "apply_forward_velocity",
     "apply_backward_velocity", "apply_turning_radius"}

\* detect_front_collision, with byte the packet the Roomba answers its poll
\* with.  The first statement evaluates cc.POLL_SENSORS; the module binds
\* POLL_SENSORS but no name cc, so the call raises NameError before anything
\* is written to or read from the serial port, and the poll, the bumper test
\* and the wobble loop below it are not reached.  A read that ends without a
\* byte would raise at roomba.read(1)[0].  The result is how the call ends,
\* the commands it wrote, the bytes it read and the time it slept.
detect_front_collision(byte, used_invincibility_item, wobble_duration) ==
    IF "cc" \notin ModuleNames
    THEN [raised |-> "NameError", writes |-> <<>>, reads |-> 0, slept |-> 0]
    ELSE IF byte = EmptyRead
    THEN [raised |-> "IndexError", writes |-> <<POLL_BUMPERS_AND_DROPS>>,
          reads |-> 0, slept |-> 0]
    ELSE LET bumper_depressed == BitAnd(byte, 3) IN
         IF bumper_depressed # 0 /\ ~used_invincibility_item
         THEN [raised |-> "none",
               writes |-> <<POLL_BUMPERS_AND_DROPS>> \o WobbleSequence,
               reads |-> 1,
               slept |-> 6 * (wobble_duration \div 6)]
         ELSE [raised |-> "none", writes |-> <<POLL_BUMPERS_AND_DROPS>>,
               reads |-> 1, slept |-> 0]

\* ------------------------------------------------------------------ state
VARIABLES
    status,              \* "running", "exited" (sys.exit) or "crashed" (uncaught exception)
    using_wobble,        \* the session's wobble choice
    controllers,         \* instance ids of the connected controllers, in dict order
    idx,                 \* controllers already served in this pass of the while loop
    has_mushroom, has_star, used_mushroom, used_star,
    elapsed_time, time_item_used,
    has_item,            \* has_mushroom or has_star as the pass found them
    now,                 \* the last value time.time() returned (the clock)
    sensor,              \* the sensor packet byte the Roomba reports during the pass
    right_trigger_value, left_trigger_value, used_item, wheel_dropped,
    axis_0,              \* what controller.get_axis(0) returned in the pass
    velocity,            \* the number velocity holds
    velocity_is_float,   \* velocity holds a float (the 0.0 of the pass's start)
    op,                  \* the handler that ran last
    written,             \* the commands the last handler wrote to the serial port
    reads                \* the bytes the last handler read from the serial port

vars == <<status, using_wobble, controllers, idx, has_mushroom, has_star,
          used_mushroom, used_star, elapsed_time, time_item_used, now, sensor,
          right_trigger_value, left_trigger_value, used_item, wheel_dropped,
          velocity, velocity_is_float, has_item, axis_0, op, written, reads>>

items == <<has_mushroom, has_star, used_mushroom, used_star, elapsed_time,
           time_item_used>>
locals == <<right_trigger_value, left_trigger_value, used_item, wheel_dropped,
            velocity, velocity_is_float, has_item, sensor, axis_0>>

\* -------------------------------------------- controller.py, the tick body
\* GenerateItem with the mushroom branch missing its "not has_item" test.
GenerateItem_MushroomUnguarded(hm, hs, wd, generated_item) ==
    LET holding == hm \/ hs IN
    IF wd # 0
    THEN IF generated_item = "mushroom"
         THEN [has_mushroom |-> TRUE, has_star |-> hs]
         ELSE IF generated_item = "star" /\ ~holding
              THEN [has_mushroom |-> hm, has_star |-> TRUE]
              ELSE [has_mushroom |-> hm, has_star |-> hs]
    ELSE [has_mushroom |-> hm, has_star |-> hs]

\* GenerateItem with the star branch missing its "not has_item" test.
GenerateItem_StarUnguarded(hm, hs, wd, generated_item) ==
    LET holding == hm \/ hs IN
    IF wd # 0
    THEN IF generated_item = "mushroom" /\ ~holding
         THEN [has_mushroom |-> TRUE, has_star |-> hs]
         ELSE IF generated_item = "star"
              THEN [has_mushroom |-> hm, has_star |-> TRUE]
              ELSE [has_mushroom |-> hm, has_star |-> hs]
    ELSE [has_mushroom |-> hm, has_star |-> hs]

\* Item generation: a wheeldrop draws an item, kept only if none is held.
GenerateItem(hm, hs, wd, generated_item) ==
    LET holding == hm \/ hs IN
    IF wd # 0
    THEN IF generated_item = "mushroom" /\ ~holding
         THEN [has_mushroom |-> TRUE, has_star |-> hs]
         ELSE IF generated_item = "star" /\ ~holding
              THEN [has_mushroom |-> hm, has_star |-> TRUE]
              ELSE [has_mushroom |-> hm, has_star |-> hs]
    ELSE [has_mushroom |-> hm, has_star |-> hs]

\* UseItem leaving the used item in the inventory.
UseItem_KeepsHeld(hm, hs, um, us, tiu, x_button, t) ==
    IF hm /\ x_button
    THEN [has_mushroom |-> hm, has_star |-> hs, used_mushroom |-> TRUE,
          used_star |-> us, time_item_used |-> t]
    ELSE IF hs /\ x_button
         THEN [has_mushroom |-> hm, has_star |-> hs, used_mushroom |-> um,
               used_star |-> TRUE, time_item_used |-> t]
         ELSE [has_mushroom |-> hm, has_star |-> hs, used_mushroom |-> um,
               used_star |-> us, time_item_used |-> tiu]

\* Item usage: the X button moves the held item into use at time t.
UseItem(hm, hs, um, us, tiu, x_button, t) ==
    IF hm /\ x_button
    THEN [has_mushroom |-> FALSE, has_star |-> hs, used_mushroom |-> TRUE,
          used_star |-> us, time_item_used |-> t]
    ELSE IF hs /\ x_button
         THEN [has_mushroom |-> hm, has_star |-> FALSE, used_mushroom |-> um,
               used_star |-> TRUE, time_item_used |-> t]
         ELSE [has_mushroom |-> hm, has_star |-> hs, used_mushroom |-> um,
               used_star |-> us, time_item_used |-> tiu]

\* TriggerVelocity with the backward trigger subtracted while driving forward.
TriggerVelocity_Blended(max_velocity, driving_forward, driving_backward, rt, lt) ==
    IF driving_forward
    THEN [velocity |-> apply_forward_velocity(max_velocity, rt)
                       + apply_backward_velocity(max_velocity, lt),
          is_float |-> FALSE]
    ELSE IF driving_backward
         THEN [velocity |-> apply_backward_velocity(max_velocity, lt), is_float |-> FALSE]
         ELSE [velocity |-> 0, is_float |-> TRUE]

\* The velocity the triggers select under a ceiling: forward overrides
\* backward, each an int; with neither trigger pulled nothing is assigned and
\* velocity keeps the float 0.0 it starts the pass with (is_float).
TriggerVelocity(max_velocity, driving_forward, driving_backward, rt, lt) ==
    IF driving_forward
    THEN [velocity |-> apply_forward_velocity(max_velocity, rt), is_float |-> FALSE]
    ELSE IF driving_backward
         THEN [velocity |-> apply_backward_velocity(max_velocity, lt), is_float |-> FALSE]
         ELSE [velocity |-> 0, is_float |-> TRUE]

\* ItemEffects deciding on the elapsed time of this pass, t - tiu, instead of
\* the elapsed_time the previous pass stored.
ItemEffects_FreshElapsed(um, us, el, tiu, driving_forward, driving_backward, rt, lt, t) ==
    IF um \/ us
    THEN IF um /\ t - tiu < MUSHROOM_DURATION
         THEN [used_mushroom |-> um, used_star |-> us, elapsed_time |-> t - tiu,
               velocity |-> MAX_VELOCITY_W_SHROOM, is_float |-> FALSE]
         ELSE IF um /\ t - tiu > MUSHROOM_DURATION
         THEN [used_mushroom |-> FALSE, used_star |-> us, elapsed_time |-> el,
               velocity |-> 0, is_float |-> TRUE]
         ELSE IF us /\ t - tiu < STAR_DURATION
         THEN LET v == TriggerVelocity(MAX_VELOCITY_W_STAR, driving_forward,
                                       driving_backward, rt, lt)
              IN [used_mushroom |-> um, used_star |-> us, elapsed_time |-> t - tiu,
                  velocity |-> v.velocity, is_float |-> v.is_float]
         ELSE IF us /\ t - tiu > STAR_DURATION
         THEN [used_mushroom |-> um, used_star |-> FALSE, elapsed_time |-> el,
               velocity |-> 0, is_float |-> TRUE]
         ELSE [used_mushroom |-> um, used_star |-> us, elapsed_time |-> el,
               velocity |-> 0, is_float |-> TRUE]
    ELSE LET v == TriggerVelocity(MAX_VELOCITY_NO_ITEMS, driving_forward,
                                  driving_backward, rt, lt)
         IN [used_mushroom |-> um, used_star |-> us, elapsed_time |-> 0,
             velocity |-> v.velocity, is_float |-> v.is_float]

\* Item effects and duration: the velocity of the pass and the expiry of the
\* item in use, decided on the elapsed_time the previous pass left behind.
\* velocity starts the pass as the float 0.0 and stays so (is_float) in the
\* branches that assign nothing to it.
ItemEffects(um, us, el, tiu, driving_forward, driving_backward, rt, lt, t) ==
    IF um \/ us
    THEN IF um /\ el < MUSHROOM_DURATION
         THEN [used_mushroom |-> um, used_star |-> us, elapsed_time |-> t - tiu,
               velocity |-> MAX_VELOCITY_W_SHROOM, is_float |-> FALSE]
         ELSE IF um /\ el > MUSHROOM_DURATION
         THEN [used_mushroom |-> FALSE, used_star |-> us, elapsed_time |-> el,
               velocity |-> 0, is_float |-> TRUE]
         ELSE IF us /\ el < STAR_DURATION
         THEN LET v == TriggerVelocity(MAX_VELOCITY_W_STAR, driving_forward,
                                       driving_backward, rt, lt)
              IN [used_mushroom |-> um, used_star |-> us, elapsed_time |-> t - tiu,
                  velocity |-> v.velocity, is_float |-> v.is_float]
         ELSE IF us /\ el > STAR_DURATION
         THEN [used_mushroom |-> um, used_star |-> FALSE, elapsed_time |-> el,
               velocity |-> 0, is_float |-> TRUE]
         ELSE [used_mushroom |-> um, used_star |-> us, elapsed_time |-> el,
               velocity |-> 0, is_float |-> TRUE]
    ELSE LET v == TriggerVelocity(MAX_VELOCITY_NO_ITEMS, driving_forward,
                                  driving_backward, rt, lt)
         IN [used_mushroom |-> um, used_star |-> us, elapsed_time |-> 0,
             velocity |-> v.velocity, is_float |-> v.is_float]

\* random.choice(cc.ITEMS) is called only in a pass whose packet shows a
\* wheeldrop; "none" stands for the pass that draws nothing.
Draws(byte) ==
    IF byte # EmptyRead /\ BitAnd(byte, 12) # 0 THEN ITEMS ELSE {"none"}

\* Trigger polling: forward movement overrides backward movement.
DrivingForward(rt) == rt + 100 > THRESHOLD
DrivingBackward(rt, lt) == ~DrivingForward(rt) /\ lt + 100 > THRESHOLD

\* Deadzone letting every reading through.
Deadzone_NoFilter(axis) == axis

\* Stick drift filter.
Deadzone(axis) == IF Abs(axis) < THRESHOLD THEN 0 ELSE axis

\* The drive command of the pass.  velocity_bytes keeps the type of velocity:
\* [0.0, 0.0] for the float 0.0, on which bytearray() raises TypeError, so
\* that nothing is written.
DriveCommand(v, is_float, lstick_horiz_pos) ==
    IF is_float
    THEN [raised |-> "TypeError", writes |-> <<>>]
    ELSE [raised |-> "none",
          writes |-> <<DRIVE \o ByteSplit(v)
                       \o apply_turning_radius(lstick_horiz_pos, THRESHOLD,
                                               MIN_RADIUS, MAX_RADIUS)>>]

\* ------------------------------------------------------------------- Init
\* After the prompts, the FULL_MODE write and the item variables' set-up.
Init ==
    /\ status = "running"
    /\ using_wobble \in BOOLEAN
    /\ controllers = <<>>
    /\ idx = 0
    /\ has_mushroom = FALSE /\ has_star = FALSE
    /\ used_mushroom = FALSE /\ used_star = FALSE
    /\ elapsed_time = 0 /\ time_item_used = 0
    /\ now = 0
    /\ sensor = 0
    /\ right_trigger_value = -100 /\ left_trigger_value = -100
    /\ used_item = FALSE /\ wheel_dropped = 0
    /\ velocity = 0 /\ velocity_is_float = TRUE
    /\ has_item = FALSE
    /\ axis_0 = 0
    /\ op = "start"
    /\ written = <<FULL_MODE>>
    /\ reads = 0

\* ---------------------------------------------------------------- actions
\* One pass of the body of "for controller in controllers.values()", for the
\* next controller of the dict.  axis0/axis5/axis2/button0 are what the
\* controller reports, byte the packet the Roomba answers a poll with,
\* generated_item the outcome of random.choice.  The calls of time.time() in
\* a pass all read the clock as it stands after the collision check.  A read
\* that ends without a byte raises at roomba.read(1)[0] (IndexError on an
\* empty result, pySerial's SerialException on a lost device), after the
\* controller was polled and the poll request written.
Tick(axis0, axis5, axis2, button0, byte, generated_item) ==
    /\ status = "running"
    /\ idx < Len(controllers)
    /\ idx' = IF idx + 1 = Len(controllers) THEN 0 ELSE idx + 1
    /\ op' = "tick"
    /\ sensor' = byte
    /\ UNCHANGED <<using_wobble, controllers>>
    /\ LET collision == detect_front_collision(byte, used_star, WOBBLE_DURATION) IN
       IF using_wobble /\ collision.raised # "none"
       THEN \* the exception leaves the loop and ends the program
            /\ status' = "crashed"
            /\ now' = now
            /\ written' = collision.writes
            /\ reads' = collision.reads
            /\ UNCHANGED <<items, right_trigger_value, left_trigger_value,
                           used_item, wheel_dropped, velocity, velocity_is_float,
                           has_item, axis_0>>
       ELSE IF byte = EmptyRead
       THEN \* the exception leaves the loop and ends the program
            /\ status' = "crashed"
            /\ now' = now + (IF using_wobble THEN collision.slept ELSE 0)
            /\ axis_0' = axis0
            /\ right_trigger_value' = axis5
            /\ left_trigger_value' = axis2
            /\ used_item' = button0
            /\ written' = (IF using_wobble THEN collision.writes ELSE <<>>)
                          \o <<POLL_BUMPERS_AND_DROPS>>
            /\ reads' = (IF using_wobble THEN collision.reads ELSE 0)
            /\ UNCHANGED <<items, wheel_dropped, velocity, velocity_is_float,
                           has_item>>
       ELSE \* each step's result is bound once, in the order of the source
            \E t \in {now + (IF using_wobble THEN collision.slept ELSE 0)},
               lstick_horiz_pos \in {Deadzone(axis0)},
               driving_forward \in {DrivingForward(axis5)},
               wd \in {BitAnd(byte, 12)} :
            \E driving_backward \in {DrivingBackward(axis5, axis2)},
               gen \in {GenerateItem(has_mushroom, has_star, wd, generated_item)} :
            \E use \in {UseItem(gen.has_mushroom, gen.has_star, used_mushroom,
                                used_star, time_item_used, button0, t)} :
            \E eff \in {ItemEffects(use.used_mushroom, use.used_star, elapsed_time,
                                    use.time_item_used, driving_forward,
                                    driving_backward, axis5, axis2, t)} :
            \E drive \in {DriveCommand(eff.velocity, eff.is_float, lstick_horiz_pos)} :
               \* an exception at the drive command ends the program
               /\ status' = IF drive.raised # "none" THEN "crashed" ELSE "running"
               /\ now' = t
               /\ axis_0' = axis0
               /\ right_trigger_value' = axis5
               /\ left_trigger_value' = axis2
               /\ used_item' = button0
               /\ wheel_dropped' = wd
               /\ has_item' = (has_mushroom \/ has_star)
               /\ has_mushroom' = use.has_mushroom
               /\ has_star' = use.has_star
               /\ time_item_used' = use.time_item_used
               /\ used_mushroom' = eff.used_mushroom
               /\ used_star' = eff.used_star
               /\ elapsed_time' = eff.elapsed_time
               /\ velocity' = eff.velocity
               /\ velocity_is_float' = eff.is_float
               /\ written' = (IF using_wobble THEN collision.writes ELSE <<>>)
                             \o <<POLL_BUMPERS_AND_DROPS>> \o drive.writes
               /\ reads' = (IF using_wobble THEN collision.reads ELSE 0) + 1

\* pygame.QUIT
Quit ==
    /\ status = "running"
    /\ idx = 0
    /\ status' = "exited"
    /\ op' = "quit"
    /\ written' = <<STOP>>
    /\ reads' = 0
    /\ UNCHANGED <<using_wobble, controllers, idx, items, now, locals>>

\* pygame.JOYDEVICEADDED: pygame numbers the instances 0, 1, ...
JoyDeviceAdded ==
    /\ status = "running"
    /\ idx = 0
    /\ Len(controllers) < MaxControllers
    /\ controllers' = Append(controllers, Len(controllers))
    /\ op' = "added"
    /\ written' = <<>>
    /\ reads' = 0
    /\ UNCHANGED <<status, using_wobble, idx, items, now, locals>>

\* pygame.JOYDEVICEREMOVED: STOP is written and the controller deleted, then
\* the call of the undefined name printf raises NameError.
JoyDeviceRemoved(i) ==
    /\ status = "running"
    /\ idx = 0
    /\ i \in 1..Len(controllers)
    /\ controllers' = SubSeq(controllers, 1, i - 1)
                      \o SubSeq(controllers, i + 1, Len(controllers))
    /\ status' = "crashed"
    /\ op' = "removed"
    /\ written' = <<STOP>>
    /\ reads' = 0
    /\ UNCHANGED <<using_wobble, idx, items, now, locals>>

\* The wall clock advances (the environment).
Advance(dt) ==
    /\ status = "running"
    /\ now + dt <= MaxTime
    /\ now' = now + dt
    /\ UNCHANGED <<status, using_wobble, controllers, idx, items, locals, op,
                   written, reads>>

Next ==
    \/ \E c \in ControllerSamples, button0 \in BOOLEAN, byte \in SensorReads :
       \E generated_item \in Draws(byte) :
          Tick(c[1], c[2], c[3], button0, byte, generated_item)
    \/ \E dt \in Dts : Advance(dt)
    \/ Quit
    \/ JoyDeviceAdded
    \/ \E i \in 1..MaxControllers : JoyDeviceRemoved(i)

Spec == Init /\ [][Next]_vars

\* A session in which no time passes and no controller is removed, with the
\* stick swept over its travel while driving forward with no item around, and
\* the triggers swept over theirs with the stick centred.
SweepNext ==
    \/ JoyDeviceAdded
    \/ \E a \in (IF has_mushroom \/ has_star \/ used_mushroom \/ used_star
                 THEN {-50} ELSE SteerSamples) :
          Tick(a, 100, -100, FALSE, 0, "none")
    \/ \E tr \in TriggerPairs, button0 \in BOOLEAN, byte \in {0, 12} :
       \E generated_item \in Draws(byte) :
          Tick(0, tr[1], tr[2], button0, byte, generated_item)

SweepSpec == Init /\ [][SweepNext]_vars

\* ================================================================= claims
Held == has_mushroom \/ has_star
Active == used_mushroom \/ used_star
\* The step is a pass of the tick body whose poll the Roomba answered (the
\* clock's own steps leave op as it was, and change now).
PassStep == op' = "tick" /\ now' = now /\ sensor' # EmptyRead
\* The step is a pass that ran to its end and wrote its drive command.
TickStep == PassStep /\ status' = "running"
\* The state a completed pass leaves.
TickDone == op = "tick" /\ status = "running"
\* The step puts an item into the inventory that was not there.
Acquires == (has_mushroom' /\ ~has_mushroom) \/ (has_star' /\ ~has_star)
\* The velocity bytes of the drive command the last pass wrote.
SentVelocity == SubSeq(written[Len(written)], 2, 3)

\* C1 (as stated): a pass that starts with an item in use (used_mushroom or
\* used_star) never puts an item into the inventory.
C1_NoAcquisitionWhileActive ==
    [][(TickStep /\ Active) => ~Acquires]_vars

\* C1 (amended): an item enters the inventory only in a pass that saw a
\* wheeldrop and found nothing held; a pass that finds an item held adds
\* none; and a pass that saw a wheeldrop, found nothing held and had the X
\* button released ends with an item held, whether or not an item is in use.
C1_AcquisitionOnlyWhenNothingHeld ==
    [][/\ Acquires => (PassStep /\ ~Held /\ wheel_dropped' # 0)
       /\ (PassStep /\ Held) => ~Acquires
       /\ (TickStep /\ ~Held /\ wheel_dropped' # 0 /\ ~used_item') => Held']_vars

\* C1 witness: a pass that started with an item in use and nothing held has
\* seen a wheeldrop and left a Star in the inventory beside the used Mushroom.
C1_Witness ==
    /\ TickDone /\ wheel_dropped # 0 /\ ~has_item
    /\ has_star /\ used_mushroom /\ elapsed_time > 0

\* C2: used_mushroom and used_star are never both true.
C2_AtMostOneActive == ~(used_mushroom /\ used_star)

\* C3: a pass that finds an item held leaves the inventory as it was when the
\* X button is released, and adds nothing to it in any case, whatever the
\* draw; has_mushroom and has_star are never both true.
C3_HeldItemKept ==
    [][/\ (PassStep /\ Held /\ ~used_item')
            => (has_mushroom' = has_mushroom /\ has_star' = has_star)
       /\ (PassStep /\ Held) => ~Acquires
       /\ ~(has_mushroom' /\ has_star')]_vars

\* C3 witness: a pass found a Mushroom held, saw a wheeldrop, and the Mushroom
\* is still the one item held.
C3_Witness ==
    TickDone /\ has_item /\ wheel_dropped # 0 /\ ~used_item /\ has_mushroom /\ ~has_star

\* The velocity the base policy gives for the triggers of the pass.
BaseVelocity ==
    TriggerVelocity(MAX_VELOCITY_NO_ITEMS, DrivingForward(right_trigger_value'),
                    DrivingBackward(right_trigger_value', left_trigger_value'),
                    right_trigger_value', left_trigger_value').velocity
\* The velocity the Star's policy gives for the triggers of the pass.
StarVelocity ==
    TriggerVelocity(MAX_VELOCITY_W_STAR, DrivingForward(right_trigger_value'),
                    DrivingBackward(right_trigger_value', left_trigger_value'),
                    right_trigger_value', left_trigger_value').velocity
\* The pass is the first whose clock reading puts the item in use at or past
\* the duration d: the previous pass stored an elapsed time below d.
Threshold(d) == elapsed_time < d /\ now - time_item_used >= d
\* The pass ran to its end and its drive command carries the velocity v.
Transmits(v) ==
    /\ status' = "running" /\ velocity' = v /\ ~velocity_is_float'
    /\ SentVelocity' = ByteSplit(v)

\* C4 (as stated, on the pass of the activation, where now - activated_at is
\* 0): a pass that finds a Mushroom held and the X button down transmits the
\* velocity 500, whatever happened on earlier passes.
C4_MushroomForcesVelocity ==
    [][(PassStep /\ has_mushroom /\ used_item')
          => Transmits(MAX_VELOCITY_W_SHROOM)]_vars

\* C5 (as stated): on the first pass at which the Mushroom in use has an
\* elapsed time >= MUSHROOM_DURATION the velocity is the base policy's.
C5_BasePolicyOnThresholdTick ==
    [][(PassStep /\ used_mushroom /\ Threshold(MUSHROOM_DURATION))
          => velocity' = BaseVelocity]_vars

\* C5 (amended): on that first pass the drive command still carries the
\* boosted velocity 500, and the Mushroom is still in use after it.
C5_BoostedOnThresholdTick ==
    [][(PassStep /\ used_mushroom /\ Threshold(MUSHROOM_DURATION))
          => (Transmits(MAX_VELOCITY_W_SHROOM) /\ used_mushroom')]_vars

\* C5 witness: a pass has transmitted 500 and stored an elapsed time at or
\* past MUSHROOM_DURATION (the threshold pass of a Mushroom).
C5_Witness ==
    /\ TickDone /\ used_mushroom /\ velocity = MAX_VELOCITY_W_SHROOM
    /\ elapsed_time >= MUSHROOM_DURATION
    /\ SentVelocity = ByteSplit(MAX_VELOCITY_W_SHROOM)

\* The pass activates an item: the X button is down and an item is held or
\* drawn in this pass.
Activates == used_item' /\ (Held \/ wheel_dropped' # 0)

\* C6: with one item in use and none activated in the pass, the threshold
\* pass still applies the item's effect and keeps it in use, and the pass
\* after it (which starts with a stored elapsed time at or past the
\* duration) clears the item.
C6_ClearedOnTickAfterThreshold ==
    [][(PassStep /\ ~Activates) =>
         /\ (used_mushroom /\ ~used_star /\ Threshold(MUSHROOM_DURATION))
               => (velocity' = MAX_VELOCITY_W_SHROOM /\ used_mushroom')
         /\ (used_star /\ ~used_mushroom /\ Threshold(STAR_DURATION))
               => (velocity' = StarVelocity /\ used_star')
         /\ (used_mushroom /\ ~used_star /\ elapsed_time >= MUSHROOM_DURATION)
               => ~used_mushroom'
         /\ (used_star /\ ~used_mushroom /\ elapsed_time >= STAR_DURATION)
               => ~used_star']_vars

\* The last pass wrote a wobble command.
WobbleRan == \E i \in 1..Len(written) : written[i] \in {WobbleA, WobbleB}
\* The packet of the last pass shows a bumper pressed.
BumperHit == sensor # EmptyRead /\ BitAnd(sensor, 3) # 0
Polls == Cardinality({i \in 1..Len(written) : written[i] = POLL_BUMPERS_AND_DROPS})

\* C8: in every pass the wobble sequence runs iff a bumper is hit, wobble is
\* enabled and no Star is in use with an elapsed time below STAR_DURATION.
C8_WobbleIffCollision ==
    op = "tick" =>
        (WobbleRan <=> (BumperHit /\ using_wobble
                        /\ ~(used_star /\ elapsed_time < STAR_DURATION)))

\* C9: every pass writes exactly one sensor poll and reads exactly one byte,
\* with wobble enabled or not.
C9_OnePollPerTick == op = "tick" => (Polls = 1 /\ reads = 1)

\* C10: a pass with wobble enabled, a bumper hit and no Star in use writes
\* the six wobble commands WobbleA, WobbleB, ... in one uninterrupted run,
\* and no other wobble command.
C10_WobbleSequence ==
    (op = "tick" /\ using_wobble /\ BumperHit /\ ~used_star) =>
        /\ \E k \in 0..(Len(written) - 6) : SubSeq(written, k + 1, k + 6) = WobbleSequence
        /\ Cardinality({i \in 1..Len(written) : written[i] \in {WobbleA, WobbleB}}) = 6

\* The radius bytes of the drive command the last pass wrote.
SentRadius == SubSeq(written[Len(written)], 4, 5)
\* The value a byte pair stands for: big-endian 16-bit two's complement.
Decode16(b) ==
    LET u == b[1] * 256 + b[2] IN IF u >= 32768 THEN u - 65536 ELSE u
Sign(x) == IF x > 0 THEN 1 ELSE IF x < 0 THEN 0 - 1 ELSE 0

\* C11: a pass whose stick reading has a magnitude below THRESHOLD writes a
\* drive command whose radius bytes are the straight-ahead pair [128, 0].
C11_DeadzoneStraight ==
    (TickDone /\ Abs(axis_0) < THRESHOLD) => SentRadius = <<128, 0>>

\* C11 witness: a pass read a stick off centre by less than THRESHOLD and
\* wrote the straight-ahead radius.
C11_Witness == TickDone /\ axis_0 = 0 - 6 /\ SentRadius = <<128, 0>>

\* The radius magnitude does not grow when the stick reading's magnitude does,
\* over two passes in a row that both read the stick at or past THRESHOLD.
RadiusMonotonic ==
    (TickDone /\ TickStep /\ Abs(axis_0) >= THRESHOLD
       /\ Abs(axis_0') >= Abs(axis_0))
      => Abs(Decode16(SentRadius')) <= Abs(Decode16(SentRadius))

\* C12 (as stated): for a stick reading at or past THRESHOLD the radius bytes
\* decode to a value with the sign of the reading, its magnitude monotonic in
\* the reading's.
C12_RadiusSignOfSteer ==
    [][/\ (TickStep /\ Abs(axis_0') >= THRESHOLD)
            => Sign(Decode16(SentRadius')) = Sign(axis_0')
       /\ RadiusMonotonic]_vars

\* C12 (amended): the decoded radius has the sign opposite to the reading's
\* (stick right, a positive reading, gives a negative radius), lies between
\* 119 and 1700 in magnitude, and its magnitude does not grow with the
\* reading's.
C12_RadiusOppositeSign ==
    [][/\ (TickStep /\ Abs(axis_0') >= THRESHOLD)
            => /\ Sign(Decode16(SentRadius')) = 0 - Sign(axis_0')
               /\ Abs(Decode16(SentRadius')) \in 119 .. MAX_RADIUS
       /\ RadiusMonotonic]_vars

\* C12 witness: a pass read the stick half way to the right and wrote the
\* radius -969.
C12_Witness == TickDone /\ axis_0 = 50 /\ Decode16(SentRadius) = 0 - 969

\* The drive commands (opcode 137) among the commands the last handler wrote.
DriveWrites == {i \in 1..Len(written) : written[i][1] = DRIVE[1]}

\* C13: a pass for a controller connected after the first one writes no drive
\* command and activates no item.
C13_OnlyFirstController ==
    [][(PassStep /\ idx > 0) => (DriveWrites' = {} /\ ~Activates)]_vars

\* C14: a quit event writes STOP and ends the program, so that STOP is the
\* last command written; a device-removed event writes STOP, removes the
\* device, and leaves the loop running.
C14_StopOnQuitAndRemoval ==
    [][/\ (op' = "quit" /\ status = "running")
            => (written' = <<STOP>> /\ status' = "exited")
       /\ (Len(controllers') < Len(controllers))
            => /\ written' = <<STOP>>
               /\ Len(controllers') = Len(controllers) - 1
               /\ status' = "running"]_vars

\* The step is a pass whose read of the sensor packet ends without a byte.
FaultStep == op' = "tick" /\ now' = now /\ sensor' = EmptyRead /\ ~using_wobble

\* C15: a pass whose sensor read returns no byte changes no item state and
\* writes no drive command, and the loop goes on to the next pass.
C15_FaultSkipsTick ==
    [][FaultStep => (UNCHANGED items /\ DriveWrites' = {} /\ status' = "running")]_vars

\* C16: a completed pass with both triggers past THRESHOLD and no Mushroom in
\* use transmits the forward velocity of the right trigger alone, under the
\* ceiling in force (425 with a Star in use, else 300); it is not negative.
C16_ForwardOverridesBackward ==
    [][(TickStep /\ right_trigger_value' + 100 > THRESHOLD
          /\ left_trigger_value' + 100 > THRESHOLD /\ ~used_mushroom')
         => /\ velocity' = apply_forward_velocity(
                             IF used_star' THEN MAX_VELOCITY_W_STAR
                                           ELSE MAX_VELOCITY_NO_ITEMS,
                             right_trigger_value')
            /\ velocity' >= 0
            /\ Decode16(SentVelocity') = velocity']_vars

\* C16 witness: a pass with the right trigger three quarters actuated and
\* the left one fully pulled, no item in use, transmitted 225.
C16_Witness ==
    /\ TickDone /\ right_trigger_value = 50 /\ left_trigger_value = 100
    /\ ~Active /\ velocity = 225 /\ SentVelocity = <<0, 225>>

\* C17: a pass that starts with one item in use and a stored elapsed time at
\* or past the item's duration (equal to it included) clears the item, and
\* an expiry with no wheeldrop and the X button released leaves the
\* inventory as it was.
C17_ExpiredItemCleared ==
    [][(PassStep /\ ~Activates) =>
         /\ (used_mushroom /\ ~used_star /\ elapsed_time >= MUSHROOM_DURATION)
               => ~used_mushroom'
         /\ (used_star /\ ~used_mushroom /\ elapsed_time >= STAR_DURATION)
               => ~used_star'
         /\ (((used_mushroom /\ ~used_mushroom') \/ (used_star /\ ~used_star'))
               /\ wheel_dropped' = 0 /\ ~used_item')
               => UNCHANGED <<has_mushroom, has_star>>]_vars

\* The pass has an item for the X button to use: one it found held, or the
\* one its wheeldrop drew with nothing held.
HeldForUse == Held \/ wheel_dropped' # 0

\* C19: a pass with the X button down and an item to use ends with nothing
\* held, the time of use set to the clock's reading, and that item in use
\* (unless the effects step of the same pass cleared it on a stored elapsed
\* time past its duration, which ends the pass without a drive command); a
\* pass with the X button down and no item to use leaves the inventory and
\* the time of use as they were and puts nothing into use.
C19_ActivationAtomic ==
    [][/\ (PassStep /\ used_item' /\ HeldForUse)
            => /\ ~has_mushroom' /\ ~has_star'
               /\ time_item_used' = now'
               /\ has_mushroom
                    => (used_mushroom' \/ (status' = "crashed"
                                           /\ elapsed_time > MUSHROOM_DURATION))
               /\ has_star
                    => (used_star' \/ (status' = "crashed"
                                       /\ elapsed_time > STAR_DURATION))
               /\ (used_mushroom' \/ used_star' \/ status' = "crashed")
       /\ (PassStep /\ used_item' /\ ~HeldForUse)
            => /\ UNCHANGED <<has_mushroom, has_star, time_item_used>>
               /\ used_mushroom' => used_mushroom
               /\ used_star' => used_star]_vars

\* C19 witness: a pass found a Mushroom held with the X button down, after
\* time had passed, and left it in use, nothing held, used at the clock's
\* reading.
C19_Witness ==
    /\ TickDone /\ used_item /\ has_item /\ used_mushroom /\ ~used_star
    /\ ~has_mushroom /\ ~has_star /\ time_item_used = now /\ now > 0

\* C20: the velocity of every drive command a pass writes is within the
\* ceiling in force: at most 300 in magnitude with no item in use, at most
\* 425 with a Star in use, 500 with a Mushroom in use whose stored elapsed
\* time is below MUSHROOM_DURATION; it lies in -425 .. 500 and the command
\* carries it as its big-endian 16-bit two's-complement byte pair.
C20_VelocityWithinCeiling ==
    [][TickStep =>
         /\ (~used_mushroom' /\ ~used_star')
               => Abs(velocity') <= MAX_VELOCITY_NO_ITEMS
         /\ (used_star' /\ ~used_mushroom')
               => Abs(velocity') <= MAX_VELOCITY_W_STAR
         /\ (used_mushroom' /\ elapsed_time < MUSHROOM_DURATION)
               => velocity' = MAX_VELOCITY_W_SHROOM
         /\ velocity' \in (0 - MAX_VELOCITY_W_STAR) .. MAX_VELOCITY_W_SHROOM
         /\ SentVelocity' \in (0 .. 255) \X (0 .. 255)
         /\ Decode16(SentVelocity') = velocity']_vars

\* C20 witness: a pass with a Star in use and the left trigger fully pulled
\* transmitted -425 as the bytes 254, 87.
C20_Witness ==
    /\ TickDone /\ used_star /\ ~used_mushroom /\ velocity = 0 - MAX_VELOCITY_W_STAR
    /\ SentVelocity = <<254, 87>>

====
